---------------------------- MODULE Spec2Model ----------------------------
(***************************************************************************)
(* Case Service: payment recording (CaseService.ts), the REST controller   *)
(* in front of it, and the payment.completed consumer                      *)
(* (PaymentEventConsumer.ts) with the broker queue it reads from.          *)
(*                                                                         *)
(* Money is counted in grosz (1 PLN = 100), so 5200.50 PLN is 520050.      *)
(* A Date is an integer: a literal 'YYYY-MM-DD' of the source is YYYYMMDD, *)
(* an absent (undefined) date is 0, and new Date() is Now, which starts    *)
(* above every seeded date and advances with every mutating call.          *)
(* Case fields that no payment or status logic reads (debtor, creditor,    *)
(* priority, assignment, tags, notes) are left out of the case record.     *)
(***************************************************************************)
EXTENDS Integers, Sequences, FiniteSets, TLC

VARIABLES
    cases,              \* CaseService.ts: const cases (id -> Case)
    caseHistory,        \* CaseService.ts: const caseHistory (id -> actions)
    processedPayments,  \* CaseService.ts: const processedPayments, in insertion order
    ticks,              \* mutations so far; new Date() is Now
    limit,              \* mutations explored in this run
    last,               \* the last service call and what it returned
    appliedKeys,        \* history: the idempotency keys applied, in order
    evictedKeys,        \* history: the idempotency keys evicted, in order
    queue,              \* broker: ready messages of case-service.payment.completed
    deadLetters,        \* broker: messages routed to kruk.events.dlx
    nextMid,            \* broker: delivery identity of the next message published
    handler,            \* PaymentEventConsumer: the message callback in progress
    processedEventIds,  \* PaymentEventConsumer.processedEventIds, in insertion order
    out,                \* what the consumer did on the channel, in order
    msgLimit,           \* messages the broker is given in this run
    rabbitmq            \* RabbitMQConnection: connection and channel (set or null),
                        \* reconnectAttempts, pending reconnect timers; whether the
                        \* channel the consumer holds is open and the consumer tags
                        \* the broker has on it; whether stop() and disconnect()
                        \* have completed and a timer has invoked connect()

svcVars == <<cases, caseHistory, processedPayments, ticks, limit, last, appliedKeys, evictedKeys>>

mqVars == <<queue, deadLetters, nextMid, handler, processedEventIds, out,
            msgLimit, rabbitmq>>

vars == <<cases, caseHistory, processedPayments, ticks, limit, last, appliedKeys, evictedKeys,
          queue, deadLetters, nextMid, handler, processedEventIds, out,
          msgLimit, rabbitmq>>

-----------------------------------------------------------------------------
(* Bounds of the model *)

\* mutating service calls explored
MaxTicks == 2
\* stands for the 10000 of `processedPayments.size > 10000`
MaxLedger == 3
\* stands for the 5000 of `slice(0, 5000)`
EvictBatch == 2
\* stands for the 10000 of `processedEventIds.size > 10000`
MaxEventIds == 2
\* stands for the 5000 of the consumer's `slice(0, 5000)`
EventEvictBatch == 1
\* messages the broker is given
MaxMsgs == 2
\* deliveries of one message explored
MaxDeliveries == 5

-----------------------------------------------------------------------------
(* Values *)

ACTIVE == "ACTIVE"
SETTLEMENT == "SETTLEMENT"
LEGAL_ACTION == "LEGAL_ACTION"
CLOSED == "CLOSED"
WRITTEN_OFF == "WRITTEN_OFF"

CaseStatus == {ACTIVE, SETTLEMENT, LEGAL_ACTION, CLOSED, WRITTEN_OFF}

NoDate == 0

Max(a, b) == IF a >= b THEN a ELSE b

Min(a, b) == IF a <= b THEN a ELSE b

\* initializeSampleData: the five seeded cases
SampleCases ==
    [c \in {"CASE-2024-001", "CASE-2024-002", "CASE-2024-003",
            "CASE-2024-004", "CASE-2024-005"} |->
       CASE c = "CASE-2024-001" ->
              [originalDebt |-> 1800000, currentDebt |-> 1500000,
               paidAmount |-> 300000, interestAccrued |-> 120000,
               status |-> SETTLEMENT, updatedAt |-> 20240115,
               lastPaymentAt |-> 20240115, closedAt |-> NoDate]
         [] c = "CASE-2024-002" ->
              [originalDebt |-> 520050, currentDebt |-> 520050,
               paidAmount |-> 0, interestAccrued |-> 32000,
               status |-> ACTIVE, updatedAt |-> 20240110,
               lastPaymentAt |-> NoDate, closedAt |-> NoDate]
         [] c = "CASE-2024-003" ->
              [originalDebt |-> 4500000, currentDebt |-> 4000000,
               paidAmount |-> 500000, interestAccrued |-> 850000,
               status |-> LEGAL_ACTION, updatedAt |-> 20231115,
               lastPaymentAt |-> 20230810, closedAt |-> NoDate]
         [] c = "CASE-2024-004" ->
              [originalDebt |-> 850000, currentDebt |-> 0,
               paidAmount |-> 850000, interestAccrued |-> 0,
               status |-> CLOSED, updatedAt |-> 20240120,
               lastPaymentAt |-> 20240120, closedAt |-> 20240120]
         [] OTHER ->
              [originalDebt |-> 12500000, currentDebt |-> 12500000,
               paidAmount |-> 0, interestAccrued |-> 1500000,
               status |-> WRITTEN_OFF, updatedAt |-> 20230601,
               lastPaymentAt |-> NoDate, closedAt |-> NoDate]]


-----------------------------------------------------------------------------
(* CaseService *)

\* Array.from(set).filter / Set.delete over an insertion-ordered collection
RECURSIVE Without(_, _)
Without(seq, gone) ==
    IF seq = <<>> THEN <<>>
    ELSE IF Head(seq) \in gone THEN Without(Tail(seq), gone)
         ELSE <<Head(seq)>> \o Without(Tail(seq), gone)

Range(seq) == {seq[i] : i \in 1..Len(seq)}

\* `${caseId}:${paymentId}`; a case id of the store holds no ':' (CASE-yyyy-xxxxxx),
\* so two keys of stored cases are equal exactly when both parts are
IdempotencyKey(caseId, paymentId) == <<caseId, paymentId>>

\* mutant: only the key added last is recognised
IsDuplicateOfNewest(ledger, key) == ledger # <<>> /\ ledger[Len(ledger)] = key

\* mutant: the search starts one entry late and misses the oldest key
IsDuplicatePastOldest(ledger, key) == key \in Range(SubSeq(ledger, 2, Len(ledger)))

\* mutant: every key is taken for a processed one
IsDuplicateAlways(ledger, key) == TRUE

\* processedPayments.has(idempotencyKey)
IsDuplicate(ledger, key) == key \in Range(ledger)

\* mutant: the accrued interest is left out, as in the seeded cases
OutstandingDebtWithoutInterest(c) == Max(0, c.originalDebt - c.paidAmount)

\* Math.max(0, originalDebt + interestAccrued - paidAmount)
OutstandingDebt(c) == Max(0, c.originalDebt + c.interestAccrued - c.paidAmount)

\* paidAmount += amount; recompute currentDebt; stamp lastPaymentAt, updatedAt
ApplyAmount(c, amount, now) ==
    LET paid == [c EXCEPT !.paidAmount = c.paidAmount + amount]
    IN  [paid EXCEPT !.currentDebt = OutstandingDebt(paid),
                     !.lastPaymentAt = now,
                     !.updatedAt = now]

\* mutant: closes only below zero, which Math.max(0, ...) never yields
ShouldAutoCloseBelowZero(c) == c.currentDebt < 0 /\ c.status # CLOSED

\* mutant: a case that is already closed is closed again
ShouldAutoCloseAnyStatus(c) == c.currentDebt <= 0

\* the condition of "Auto-close if fully paid"
ShouldAutoClose(c) == c.currentDebt <= 0 /\ c.status # CLOSED

AutoClose(c, now) ==
    IF ShouldAutoClose(c)
    THEN [c EXCEPT !.status = CLOSED, !.closedAt = now]
    ELSE c

\* mutant: the amount is not looked at
ShouldReopenAnyAmount(c, amount) == c.status = WRITTEN_OFF

\* the condition of "Reopen if written-off and payment received"
ShouldReopen(c, amount) == c.status = WRITTEN_OFF /\ amount > 0

Reopen(c, amount) ==
    IF ShouldReopen(c, amount) THEN [c EXCEPT !.status = ACTIVE] ELSE c

\* mutant: the reopen step is left out
PaidCaseWithoutReopen(c, amount, now) == AutoClose(ApplyAmount(c, amount, now), now)

\* mutant: the reopen check looks at the status the case had before the call
PaidCaseReopeningByOldStatus(c, amount, now) ==
    LET closed == AutoClose(ApplyAmount(c, amount, now), now)
    IN  IF ShouldReopen(c, amount) THEN [closed EXCEPT !.status = ACTIVE] ELSE closed

\* the case after a non-duplicate payment: apply, then auto-close, then reopen
PaidCase(c, amount, now) == Reopen(AutoClose(ApplyAmount(c, amount, now), now), amount)

\* the history entries one non-duplicate payment appends, in order
PaymentHistory(c, amount, now) ==
    LET applied == ApplyAmount(c, amount, now)
        closed == AutoClose(applied, now)
    IN  <<"PAYMENT_RECEIVED">>
        \o (IF ShouldAutoClose(applied) THEN <<"CASE_CLOSED">> ELSE <<>>)
        \o (IF ShouldReopen(closed, amount) THEN <<"CASE_REOPENED">> ELSE <<>>)

\* mutant: slice(-5000), the newest keys
NewestKeys(ledger) ==
    Range(SubSeq(ledger, Max(1, Len(ledger) - EvictBatch + 1), Len(ledger)))

\* Array.from(processedPayments).slice(0, 5000)
OldestKeys(ledger) == Range(SubSeq(ledger, 1, Min(EvictBatch, Len(ledger))))

\* the keys the cleanup deletes once `key` has been added
Evicted(ledger, key) ==
    LET added == IF key \in Range(ledger) THEN ledger ELSE Append(ledger, key)
    IN  IF Len(added) > MaxLedger THEN OldestKeys(added) ELSE {}

\* mutant: the key is not in the ledger when the call returns
MarkProcessedNotYet(ledger, key) == ledger

\* processedPayments.add(key), then the cleanup of old entries
MarkProcessed(ledger, key) ==
    LET added == IF key \in Range(ledger) THEN ledger ELSE Append(ledger, key)
    IN  Without(added, Evicted(ledger, key))

NotFound == [found |-> FALSE]

Found(caseId, c) == [found |-> TRUE, id |-> caseId, case |-> c]

\* a call that left the store as it was
Untouched(cs, hist, ledger, ret, dup) ==
    [cases |-> cs, caseHistory |-> hist, processedPayments |-> ledger,
     ret |-> ret, applied |-> FALSE, duplicate |-> dup, evicted |-> {}]

\* mutant: a case in legal action is returned as it is, the payment refused
recordKnownPaymentUnlessLegalAction(cs, hist, ledger, caseId, paymentId, amount, now) ==
    LET key == IdempotencyKey(caseId, paymentId)
    IN  IF IsDuplicate(ledger, key) \/ cs[caseId].status = LEGAL_ACTION
        THEN Untouched(cs, hist, ledger, Found(caseId, cs[caseId]),
                       IsDuplicate(ledger, key))
        ELSE LET c == PaidCase(cs[caseId], amount, now)
             IN  [cases |-> [cs EXCEPT ![caseId] = c],
                  caseHistory |-> [hist EXCEPT ![caseId] =
                                      @ \o PaymentHistory(cs[caseId], amount, now)],
                  processedPayments |-> MarkProcessed(ledger, key),
                  ret |-> Found(caseId, c),
                  applied |-> TRUE, duplicate |-> FALSE,
                  evicted |-> Evicted(ledger, key)]

\* CaseService.recordPayment past the lookup of the case: the idempotency
\* check, the mutation, the history entries, the ledger
recordKnownPayment(cs, hist, ledger, caseId, paymentId, amount, now) ==
    LET key == IdempotencyKey(caseId, paymentId)
    IN  IF IsDuplicate(ledger, key)
        THEN Untouched(cs, hist, ledger, Found(caseId, cs[caseId]), TRUE)
        ELSE LET c == PaidCase(cs[caseId], amount, now)
             IN  [cases |-> [cs EXCEPT ![caseId] = c],
                  caseHistory |-> [hist EXCEPT ![caseId] =
                                      @ \o PaymentHistory(cs[caseId], amount, now)],
                  processedPayments |-> MarkProcessed(ledger, key),
                  ret |-> Found(caseId, c),
                  applied |-> TRUE, duplicate |-> FALSE,
                  evicted |-> Evicted(ledger, key)]

\* mutant: the key is marked as processed before the case is looked up
recordPaymentMarkingFirst(cs, hist, ledger, caseId, paymentId, amount, now) ==
    IF caseId \notin DOMAIN cs
    THEN Untouched(cs, hist, MarkProcessed(ledger, IdempotencyKey(caseId, paymentId)),
                   NotFound, FALSE)
    ELSE recordKnownPayment(cs, hist, ledger, caseId, paymentId, amount, now)

\* CaseService.recordPayment on the store (cs, hist, ledger) at time now:
\* the store after the call, what the call returns, and what it did
recordPayment(cs, hist, ledger, caseId, paymentId, amount, now) ==
    IF caseId \notin DOMAIN cs
    THEN Untouched(cs, hist, ledger, NotFound, FALSE)
    ELSE recordKnownPayment(cs, hist, ledger, caseId, paymentId, amount, now)

\* mutant: closed cases are refused as well
canAcceptPaymentsWhileOpen(status) == status \notin {LEGAL_ACTION, CLOSED}

\* CaseService.canAcceptPayments
canAcceptPayments(status) == status # LEGAL_ACTION

\* CaseService.getCaseStatus
getCaseStatus(cs, id) ==
    IF id \notin DOMAIN cs THEN NotFound
    ELSE LET status == cs[id].status
             can == canAcceptPayments(status)
         IN  [found |-> TRUE, caseId |-> id, status |-> status,
              canAcceptPayments |-> can,
              reason |-> IF ~can /\ status = LEGAL_ACTION THEN "legal action"
                         ELSE IF ~can /\ status = CLOSED THEN "closed"
                         ELSE "undefined"]

-----------------------------------------------------------------------------
(* Inputs *)

FakeCase == "CASE-FAKE"

\* the ids createCase can draw (CASE-<year>-<6 hex digits>, fresh)
NewCaseIds == {"CASE-2026-A1B2C3"}

\* the cases requests and events name
TargetCaseIds == {"CASE-2024-005", FakeCase} \cup NewCaseIds

PaymentIds == {"PAY-1", "PAY-2"}

\* a refund-like negative amount, nothing, an instalment, and the whole debt of
\* CASE-2024-005 (125000 + 15000 PLN), which overpays every other case
Amounts == {-50000, 0, 50000, 14000000}

Keys == {IdempotencyKey(c, p) : c \in DOMAIN SampleCases \cup TargetCaseIds,
                                p \in PaymentIds \cup {"PAY-3", "PAY-4", "PAY-5"}}

\* new Date()
Now == 30000000 + ticks

-----------------------------------------------------------------------------
(* REST controller (CaseController) over CaseService *)

Idle == [op |-> "none"]

\* the store and the history variables after a recordPayment call returned r
Commit(r, caseId, paymentId) ==
    /\ cases' = r.cases
    /\ caseHistory' = r.caseHistory
    /\ processedPayments' = r.processedPayments
    /\ ticks' = IF r.applied THEN ticks + 1 ELSE ticks
    /\ UNCHANGED limit
    /\ appliedKeys' = IF r.applied
                      THEN Append(appliedKeys, IdempotencyKey(caseId, paymentId))
                      ELSE appliedKeys
    /\ evictedKeys' = evictedKeys \o SelectSeq(processedPayments,
                                               LAMBDA k : k \in r.evicted)

\* POST /api/cases/:id/payments
RestRecordPayment(caseId, paymentId, amount) ==
    IF amount = 0
    THEN \* !amount: 400 Missing required fields
         /\ last' = [op |-> "recordPayment", via |-> "rest", caseId |-> caseId,
                     paymentId |-> paymentId, amount |-> amount, http |-> 400,
                     ret |-> NotFound, applied |-> FALSE, duplicate |-> FALSE,
                     before |-> NotFound]
         /\ UNCHANGED <<cases, caseHistory, processedPayments, ticks, limit,
                        appliedKeys, evictedKeys>>
    ELSE LET r == recordPayment(cases, caseHistory, processedPayments,
                                caseId, paymentId, amount, Now)
         IN  /\ ticks < limit \/ ~r.applied
             /\ Commit(r, caseId, paymentId)
             /\ last' = [op |-> "recordPayment", via |-> "rest", caseId |-> caseId,
                         paymentId |-> paymentId, amount |-> amount,
                         http |-> IF r.ret.found THEN 200 ELSE 404,
                         ret |-> r.ret, applied |-> r.applied,
                         duplicate |-> r.duplicate,
                         before |-> IF caseId \in DOMAIN cases
                                    THEN Found(caseId, cases[caseId]) ELSE NotFound]

\* CaseService.updateCase, status being dto.status or "undefined"
updateCase(cs, hist, id, status, now) ==
    IF id \notin DOMAIN cs
    THEN [cases |-> cs, caseHistory |-> hist, ret |-> NotFound]
    ELSE LET old == cs[id]
             changed == status # "undefined" /\ status # old.status
             c == [old EXCEPT
                     !.status = IF status # "undefined" THEN status ELSE @,
                     !.updatedAt = now,
                     !.closedAt = IF changed /\ status = CLOSED THEN now ELSE @]
         IN  [cases |-> [cs EXCEPT ![id] = c],
              caseHistory |-> [hist EXCEPT ![id] =
                                 IF changed THEN Append(@, "STATUS_CHANGED") ELSE @],
              ret |-> Found(id, c)]

\* PATCH /api/cases/:id
RestUpdateCase(id, status) ==
    LET r == updateCase(cases, caseHistory, id, status, Now)
    IN  /\ ticks < limit \/ ~r.ret.found
        /\ cases' = r.cases
        /\ caseHistory' = r.caseHistory
        /\ ticks' = IF r.ret.found THEN ticks + 1 ELSE ticks
        /\ last' = [op |-> "updateCase", caseId |-> id, status |-> status,
                    http |-> IF r.ret.found THEN 200 ELSE 404, ret |-> r.ret]
        /\ UNCHANGED <<processedPayments, limit, appliedKeys, evictedKeys>>

\* CaseService.createCase
createCase(originalDebt, now) ==
    [originalDebt |-> originalDebt, currentDebt |-> originalDebt,
     paidAmount |-> 0, interestAccrued |-> 0, status |-> ACTIVE,
     updatedAt |-> now, lastPaymentAt |-> NoDate, closedAt |-> NoDate]

Extend(f, k, v) == [x \in DOMAIN f \cup {k} |-> IF x = k THEN v ELSE f[x]]

\* POST /api/cases
RestCreateCase(id, originalDebt) ==
    IF originalDebt <= 0
    THEN /\ last' = [op |-> "createCase", caseId |-> id, http |-> 400]
         /\ UNCHANGED <<cases, caseHistory, processedPayments, ticks, limit,
                        appliedKeys, evictedKeys>>
    ELSE /\ ticks < limit
         /\ id \notin DOMAIN cases
         /\ cases' = Extend(cases, id, createCase(originalDebt, Now))
         /\ caseHistory' = Extend(caseHistory, id, <<"CASE_CREATED">>)
         /\ ticks' = ticks + 1
         /\ last' = [op |-> "createCase", caseId |-> id, http |-> 201]
         /\ UNCHANGED <<processedPayments, limit, appliedKeys, evictedKeys>>

\* GET /api/cases/:id/status
RestGetCaseStatus(id) ==
    /\ last' = [op |-> "getCaseStatus", caseId |-> id, ret |-> getCaseStatus(cases, id)]
    /\ UNCHANGED <<cases, caseHistory, processedPayments, ticks, limit,
                   appliedKeys, evictedKeys>>

-----------------------------------------------------------------------------
(* Broker and PaymentEventConsumer *)

NoHeader == [present |-> FALSE]

Header(counts) == [present |-> TRUE, counts |-> counts]

\* x-death headers a message can arrive with: none, two deaths, three deaths
XDeathHeaders == {NoHeader, Header(<<1, 1>>), Header(<<2, 1>>)}

\* what msg.content can hold: text JSON.parse rejects, the JSON null, a JSON
\* object without payload, a payment.completed event
Bodies == {"malformed", "null", "no-payload", "event"}

EventIds == {"EVT-1", "EVT-2"}

RECURSIVE SumCounts(_)
SumCounts(counts) ==
    IF counts = <<>> THEN 0 ELSE Head(counts) + SumCounts(Tail(counts))

\* PaymentEventConsumer.getDeathCount
getDeathCount(msg) ==
    IF ~msg.xDeath.present THEN 0 ELSE SumCounts(msg.xDeath.counts)

\* mutant: every failure is requeued
ShouldRequeueAlways(msg) == TRUE

\* the retry decision of the catch branch: nack(msg, false, requeue)
ShouldRequeue(msg) == getDeathCount(msg) < 3

\* the broker hands msg to the message callback
Delivered(msg) == [kind |-> "deliver", mid |-> msg.mid, msg |-> msg]

\* how often the broker has delivered message mid
Deliveries(mid) == Cardinality({i \in 1..Len(out) :
                                   out[i].kind = "deliver" /\ out[i].mid = mid})

\* the deliveries in the channel log that no later ack or nack settled
Unsettled(log) ==
    {i \in 1..Len(log) :
        /\ log[i].kind = "deliver"
        /\ ~\E j \in (i + 1)..Len(log) :
              log[j].kind \in {"ack", "nack"} /\ log[j].mid = log[i].mid}

\* channel.prefetch(1)
Prefetch == 1

\* private readonly queueName
QueueName == "case-service.payment.completed"

\* the consumer tag the broker generates for channel.consume, which is called
\* without a consumerTag option and whose reply is not kept
ServerConsumerTag == "amq.ctag-1"

\* the broker delivers to the callback while the channel carries a consumer
Subscribed == rabbitmq.consumerTags # {}

\* mutant: no prefetch limit, the broker pushes whatever is ready
CanDeliverUnlimited == TRUE

\* the broker delivers to a consumer with noAck: false only while the
\* unsettled deliveries of its channel are below the prefetch count
CanDeliver == Cardinality(Unsettled(out)) < Prefetch

\* mutant: the search starts one entry late and misses the oldest event id
IsDuplicateEventPastOldest(ids, eventId) == eventId \in Range(SubSeq(ids, 2, Len(ids)))

\* this.processedEventIds.has(event.eventId)
IsDuplicateEvent(ids, eventId) == eventId \in Range(ids)

\* mutant: a failed publish is thrown on to the caller
PublishRethrows(sent) == ~sent

\* CaseEventPublisher.publish catches whatever getChannel or channel.publish
\* throws and does not rethrow
PublishThrows(sent) == FALSE

\* mutant: slice(-5000), the newest event ids
NewestEventIds(ids) ==
    Range(SubSeq(ids, Max(1, Len(ids) - EventEvictBatch + 1), Len(ids)))

\* Array.from(this.processedEventIds).slice(0, 5000)
OldestEventIds(ids) == Range(SubSeq(ids, 1, Min(EventEvictBatch, Len(ids))))

\* processedEventIds.add(eventId), then the cleanup of old event ids
MarkEvent(ids, eventId) ==
    LET added == IF eventId \in Range(ids) THEN ids ELSE Append(ids, eventId)
    IN  IF Len(added) > MaxEventIds
        THEN Without(added, OldestEventIds(added))
        ELSE added

\* mutant: previousBalance is read from the case after recordPayment
BalanceUpdatePayloadReadLate(msg, previousBalance, updatedCase) ==
    [caseId |-> msg.caseId,
     previousBalance |-> updatedCase.currentDebt,
     newBalance |-> updatedCase.currentDebt,
     paymentId |-> msg.paymentId,
     paymentAmount |-> msg.amount,
     caseStatus |-> updatedCase.status]

\* the payload handlePaymentCompleted hands to publishBalanceUpdated
\* (currency is passed through and left out)
BalanceUpdatePayload(msg, previousBalance, updatedCase) ==
    [caseId |-> msg.caseId,
     previousBalance |-> previousBalance,
     newBalance |-> updatedCase.currentDebt,
     paymentId |-> msg.paymentId,
     paymentAmount |-> msg.amount,
     caseStatus |-> updatedCase.status]

\* a producer publishes a message to kruk.events under payment.completed
BrokerPublish(body, eventId, caseId, paymentId, amount, xDeath) ==
    /\ nextMid <= msgLimit
    /\ queue' = Append(queue, [mid |-> nextMid, body |-> body, eventId |-> eventId,
                               caseId |-> caseId, paymentId |-> paymentId,
                               amount |-> amount, xDeath |-> xDeath])
    /\ nextMid' = nextMid + 1
    /\ UNCHANGED <<deadLetters, handler, processedEventIds, out, msgLimit, rabbitmq>>
    /\ UNCHANGED svcVars

\* channel.nack(msg, false, requeue).  The broker requeues a message in place
\* with its headers as they were; it writes x-death only when it dead-letters.
Nack(msg, requeue) ==
    /\ queue' = IF requeue THEN <<msg>> \o Tail(queue) ELSE Tail(queue)
    /\ deadLetters' =
         IF requeue THEN deadLetters
         ELSE Append(deadLetters,
                     [msg EXCEPT !.xDeath =
                        Header(<<1>> \o (IF @.present THEN @.counts ELSE <<>>))])

\* the catch branch of the message callback
CatchBranch(msg) ==
    /\ Nack(msg, ShouldRequeue(msg))
    /\ out' = out \o <<Delivered(msg),
                       [kind |-> "nack", mid |-> msg.mid,
                        requeue |-> ShouldRequeue(msg)]>>
    /\ handler' = Idle
    /\ UNCHANGED processedEventIds
    /\ UNCHANGED svcVars

\* the message callback, from delivery to its first suspension
ConsumerReceive ==
    /\ Subscribed
    /\ CanDeliver
    /\ queue # <<>>
    /\ UNCHANGED <<nextMid, msgLimit, rabbitmq>>
    /\ LET msg == Head(queue) IN
       /\ Deliveries(msg.mid) < MaxDeliveries
       /\ CASE msg.body \in {"malformed", "null"} -> CatchBranch(msg)
            [] msg.body = "no-payload" ->
                 \* event.payload.id throws in the try block and again in the
                 \* catch block's log line: the callback's promise rejects
                 \* with the delivery neither acked nor nacked, and under
                 \* prefetch(1) the broker delivers nothing further
                 /\ handler' = [op |-> "rejected", msg |-> msg]
                 /\ queue' = Tail(queue)
                 /\ out' = Append(out, Delivered(msg))
                 /\ UNCHANGED <<deadLetters, processedEventIds>>
                 /\ UNCHANGED svcVars
            [] OTHER ->
                 IF IsDuplicateEvent(processedEventIds, msg.eventId)
                 THEN /\ out' = out \o <<Delivered(msg),
                                         [kind |-> "ack", mid |-> msg.mid]>>
                      /\ queue' = Tail(queue)
                      /\ handler' = Idle
                      /\ UNCHANGED <<deadLetters, processedEventIds>>
                      /\ UNCHANGED svcVars
                 ELSE IF msg.caseId \notin DOMAIN cases
                 THEN CatchBranch(msg)
                 ELSE LET r == recordPayment(cases, caseHistory, processedPayments,
                                             msg.caseId, msg.paymentId, msg.amount, Now)
                      IN  /\ ticks < limit \/ ~r.applied
                          /\ Commit(r, msg.caseId, msg.paymentId)
                          /\ last' = [op |-> "recordPayment", via |-> "consumer",
                                      caseId |-> msg.caseId,
                                      paymentId |-> msg.paymentId,
                                      amount |-> msg.amount, http |-> 0,
                                      ret |-> r.ret, applied |-> r.applied,
                                      duplicate |-> r.duplicate,
                                      before |-> Found(msg.caseId, cases[msg.caseId])]
                          /\ handler' =
                               [op |-> "publishBalance", msg |-> msg,
                                applied |-> r.applied,
                                statusBefore |-> cases[msg.caseId].status,
                                payload |->
                                  BalanceUpdatePayload(
                                      msg, cases[msg.caseId].currentDebt, r.ret.case)]
                          /\ queue' = Tail(queue)
                          /\ out' = Append(out, Delivered(msg))
                          /\ UNCHANGED <<deadLetters, processedEventIds>>

\* CaseEventPublisher.publish: sent when the channel is there, swallowed when not
Published(routingKey, mid, payload, sent) ==
    [kind |-> IF sent THEN "publish" ELSE "publishFailed",
     routingKey |-> routingKey, mid |-> mid, payload |-> payload]

\* the rest of the callback: publishBalanceUpdated, the status comparison of
\* handlePaymentCompleted (caseBefore and updatedCase are the one stored
\* object), publishStatusChanged, processedEventIds.add and cleanup, ack; an
\* exception out of handlePaymentCompleted would end in the catch branch
ConsumerPublishAndAck ==
    /\ handler.op = "publishBalance"
    /\ \E sent \in BOOLEAN, sentStatus \in BOOLEAN :
         LET msg == handler.msg
             caseBefore == cases[msg.caseId]
             updatedCase == cases[msg.caseId]
             statusChanged == caseBefore.status # updatedCase.status
             balanceUpdated ==
                 Published("case.balance.updated", msg.mid, handler.payload, sent)
         IN  /\ statusChanged \/ sentStatus
             /\ IF PublishThrows(sent)
                THEN /\ out' = out \o <<balanceUpdated,
                                         [kind |-> "nack", mid |-> msg.mid,
                                          requeue |-> ShouldRequeue(msg)]>>
                     /\ queue' = IF ShouldRequeue(msg) THEN <<msg>> \o queue ELSE queue
                     /\ deadLetters' = IF ShouldRequeue(msg) THEN deadLetters
                                       ELSE Append(deadLetters, msg)
                     /\ UNCHANGED processedEventIds
                ELSE /\ out' = out
                          \o <<balanceUpdated>>
                          \o (IF statusChanged
                              THEN <<Published("case.status.changed", msg.mid,
                                               [caseId |-> msg.caseId,
                                                previousStatus |-> caseBefore.status,
                                                newStatus |-> updatedCase.status],
                                               sentStatus)>>
                              ELSE <<>>)
                          \o <<[kind |-> "ack", mid |-> msg.mid]>>
                     /\ processedEventIds' = MarkEvent(processedEventIds, msg.eventId)
                     /\ UNCHANGED <<queue, deadLetters>>
    /\ handler' = Idle
    /\ UNCHANGED <<nextMid, msgLimit, rabbitmq>>
    /\ UNCHANGED svcVars

-----------------------------------------------------------------------------
(* Shutdown: PaymentEventConsumer.stop and RabbitMQConnection.disconnect *)

\* private readonly maxReconnectAttempts = 5
MaxReconnectAttempts == 5

\* RabbitMQConnection.scheduleReconnect on the connection state r
scheduleReconnect(r) ==
    IF r.reconnectAttempts >= MaxReconnectAttempts
    THEN r
    ELSE [r EXCEPT !.reconnectAttempts = @ + 1, !.timers = @ + 1]

\* PaymentEventConsumer.stop: channel.cancel(this.queueName).  basic.cancel
\* takes a consumer tag; the broker drops the consumer with that tag and
\* answers cancel-ok when it has none.  On a closed channel cancel throws and
\* stop() does not complete.
Stop ==
    /\ ~rabbitmq.stopped
    /\ rabbitmq.consumerChannel
    /\ rabbitmq' = [rabbitmq EXCEPT !.consumerTags = @ \ {QueueName},
                                    !.stopped = TRUE]
    /\ out' = Append(out, [kind |-> "cancel", mid |-> 0, tag |-> QueueName])
    /\ UNCHANGED <<queue, deadLetters, nextMid, handler, processedEventIds, msgLimit>>
    /\ UNCHANGED svcVars

\* RabbitMQConnection.disconnect, on a shutdown signal that arrives between
\* two message callbacks: channel.close() ends the consumers of the channel,
\* connection.close() emits 'close', whose handler clears both fields and
\* calls scheduleReconnect
Disconnect ==
    /\ handler.op = "none"
    /\ rabbitmq.connection \/ rabbitmq.channel
    /\ rabbitmq' =
         LET closed == [rabbitmq EXCEPT !.channel = FALSE,
                                        !.consumerChannel = FALSE,
                                        !.consumerTags = {},
                                        !.connection = FALSE,
                                        !.disconnected = TRUE]
         IN  IF rabbitmq.connection THEN scheduleReconnect(closed) ELSE closed
    /\ UNCHANGED <<queue, deadLetters, nextMid, handler, processedEventIds, out, msgLimit>>
    /\ UNCHANGED svcVars

\* the setTimeout callback of scheduleReconnect: connect(), which returns at
\* once when connected, and otherwise connects and opens a new channel or
\* fails and calls scheduleReconnect
ReconnectTimer ==
    /\ rabbitmq.timers > 0
    /\ \E ok \in BOOLEAN :
         LET fired == [rabbitmq EXCEPT !.timers = @ - 1, !.connectInvoked = TRUE]
         IN  rabbitmq' =
               IF fired.connection /\ fired.channel THEN fired
               ELSE IF ok
                    THEN [fired EXCEPT !.connection = TRUE, !.channel = TRUE,
                                       !.reconnectAttempts = 0]
                    ELSE scheduleReconnect(fired)
    /\ UNCHANGED <<queue, deadLetters, nextMid, handler, processedEventIds, out, msgLimit>>
    /\ UNCHANGED svcVars

-----------------------------------------------------------------------------
(* The system *)

\* the service after startup: connected, the queue bound, the consumer
\* subscribed; n mutations and m messages are explored
InitWith(n, m) ==
    /\ cases = SampleCases
    /\ caseHistory = [c \in DOMAIN SampleCases |-> <<>>]
    /\ processedPayments = <<>>
    /\ ticks = 0
    /\ limit = n
    /\ last = Idle
    /\ appliedKeys = <<>>
    /\ evictedKeys = <<>>
    /\ queue = <<>>
    /\ deadLetters = <<>>
    /\ nextMid = 1
    /\ handler = Idle
    /\ processedEventIds = <<>>
    /\ out = <<>>
    /\ msgLimit = m
    /\ rabbitmq = [connection |-> TRUE, channel |-> TRUE, reconnectAttempts |-> 0,
                   timers |-> 0, consumerChannel |-> TRUE,
                   consumerTags |-> {ServerConsumerTag},
                   stopped |-> FALSE, disconnected |-> FALSE,
                   connectInvoked |-> FALSE]

RecordPaymentRequest ==
    \E c \in TargetCaseIds, p \in PaymentIds, a \in Amounts :
        RestRecordPayment(c, p, a) /\ UNCHANGED mqVars

UpdateCaseRequest ==
    \E c \in TargetCaseIds, s \in CaseStatus \cup {"undefined"} :
        RestUpdateCase(c, s) /\ UNCHANGED mqVars

CreateCaseRequest ==
    \E c \in NewCaseIds, d \in {0, 50000} :
        RestCreateCase(c, d) /\ UNCHANGED mqVars

GetCaseStatusRequest ==
    \E c \in DOMAIN SampleCases \cup TargetCaseIds :
        RestGetCaseStatus(c) /\ UNCHANGED mqVars

\* messages that fail: unreadable content under every header, and an event
\* for a case the store does not hold
PublishFailingMessage ==
    \/ \E x \in XDeathHeaders : BrokerPublish("malformed", "none", "none", "none", 0, x)
    \/ BrokerPublish("null", "none", "none", "none", 0, NoHeader)
    \/ BrokerPublish("no-payload", "none", "none", "none", 0, NoHeader)
    \/ \E x \in XDeathHeaders : BrokerPublish("event", "EVT-1", FakeCase, "PAY-1", 50000, x)

\* payment.completed events for the written-off case
PublishMessage ==
    \E e \in EventIds, a \in {0, 50000, 14000000} :
        BrokerPublish("event", e, "CASE-2024-005", "PAY-1", a, NoHeader)

Next ==
    \/ RecordPaymentRequest
    \/ UpdateCaseRequest
    \/ CreateCaseRequest

Init == InitWith(MaxTicks, MaxMsgs)

\* the REST surface over the service
Spec == Init /\ [][Next]_vars

\* the consumer, its broker, and payment requests arriving in between
ConsumerPaymentRequest ==
    \E p \in PaymentIds :
        RestRecordPayment("CASE-2024-005", p, 50000) /\ UNCHANGED mqVars

ConsumerNext ==
    \/ PublishMessage
    \/ PublishFailingMessage
    \/ ConsumerReceive
    \/ ConsumerPublishAndAck
    \/ ConsumerPaymentRequest

ConsumerSpec == Init /\ [][ConsumerNext]_vars

\* enough payments on one case, over both paths, to overflow the ledger
LedgerInit == InitWith(MaxLedger + 2, MaxMsgs)

LedgerPaymentIds == {"PAY-1", "PAY-2", "PAY-3", "PAY-4", "PAY-5"}

LedgerPaymentRequest ==
    \E p \in LedgerPaymentIds :
        RestRecordPayment("CASE-2024-005", p, 50000) /\ UNCHANGED mqVars

LedgerPublishMessage ==
    BrokerPublish("event", "EVT-1", "CASE-2024-005", "PAY-1", 50000, NoHeader)

LedgerNext ==
    \/ LedgerPaymentRequest
    \/ LedgerPublishMessage
    \/ ConsumerReceive
    \/ ConsumerPublishAndAck

LedgerSpec == LedgerInit /\ [][LedgerNext]_vars

\* status changes and status queries over the REST surface
StatusNext ==
    \/ UpdateCaseRequest
    \/ CreateCaseRequest
    \/ GetCaseStatusRequest

StatusSpec == Init /\ [][StatusNext]_vars

\* enough events under different event ids, all for one payment, to overflow
\* the processed-event set
EventInit == InitWith(MaxTicks, MaxEventIds + 2)

ManyEventIds == {"EVT-1", "EVT-2", "EVT-3", "EVT-4"}

EventPublishMessage ==
    \E e \in ManyEventIds :
        BrokerPublish("event", e, "CASE-2024-005", "PAY-1", 50000, NoHeader)

EventNext ==
    \/ EventPublishMessage
    \/ ConsumerReceive
    \/ ConsumerPublishAndAck

EventSpec == EventInit /\ [][EventNext]_vars

\* the consumer with stop() and a graceful shutdown arriving
ShutdownNext ==
    \/ LedgerPublishMessage
    \/ ConsumerReceive
    \/ ConsumerPublishAndAck
    \/ Stop
    \/ Disconnect
    \/ ReconnectTimer

ShutdownSpec == Init /\ [][ShutdownNext]_vars

-----------------------------------------------------------------------------
(* Claims *)

\* how often key k occurs in a history of keys
Count(keys, k) == Cardinality({i \in 1..Len(keys) : keys[i] = k})

\* the idempotency key of the last recordPayment call
LastKey == IdempotencyKey(last.caseId, last.paymentId)

\* the last call was recordPayment and reached CaseService
LastIsPayment == last.op = "recordPayment" /\ last.http # 400

\* C1 as stated: a (caseId, paymentId) pair changes the case at most once over
\* any sequence of recordPayment calls, so its amount is never counted twice.
C1_AtMostOnceEver == \A k \in Keys : Count(appliedKeys, k) <= 1

\* C1 as amended: a pair changes the case at most once for as long as its key
\* stays in the ledger; it is applied again only after its key was evicted, so
\* it has been applied at most once more than it was evicted, and exactly once
\* more while the key is resident.  The case's paidAmount counts each of the
\* 500 PLN payments once per application, over both paths.
C1_AtMostOncePerResidency ==
    /\ \A k \in Keys :
          /\ Count(appliedKeys, k) <= Count(evictedKeys, k) + 1
          /\ k \in Range(processedPayments)
                => Count(appliedKeys, k) = Count(evictedKeys, k) + 1
    /\ \A c \in DOMAIN SampleCases :
          cases[c].paidAmount = SampleCases[c].paidAmount
              + 50000 * Cardinality({i \in 1..Len(appliedKeys) : appliedKeys[i][1] = c})

\* a repeated call found its key resident after other payments went in between
C1_Witness ==
    /\ LastIsPayment /\ last.duplicate
    /\ Count(appliedKeys, LastKey) = 1
    /\ \E k \in Keys \ {LastKey} : Count(appliedKeys, k) > 0
    /\ cases[last.caseId].paidAmount = last.before.case.paidAmount

\* C2 as stated: every case in the store has
\* currentDebt = max(0, originalDebt + interestAccrued - paidAmount).
C2_BalanceInvariant ==
    \A c \in DOMAIN cases : cases[c].currentDebt = OutstandingDebt(cases[c])

\* C3: a non-duplicate recordPayment whose resulting currentDebt is 0 leaves
\* the case CLOSED with closedAt set, whatever its status was.
C3_AutoClose ==
    (LastIsPayment /\ last.applied /\ last.ret.case.currentDebt = 0)
        => /\ last.ret.case.status = CLOSED
           /\ last.ret.case.closedAt # NoDate
           /\ cases[last.caseId].status = CLOSED
           /\ cases[last.caseId].closedAt # NoDate

\* a case in legal action was paid off and closed by the payment
C3_Witness ==
    /\ LastIsPayment /\ last.applied
    /\ last.before.case.status = LEGAL_ACTION
    /\ last.before.case.currentDebt > 0
    /\ last.ret.case.currentDebt = 0
    /\ last.ret.case.status = CLOSED
    /\ last.ret.case.closedAt = Now - 1

C5_UnknownCaseChangesNothing ==
    [][(last'.op = "recordPayment" /\ last'.http # 400
          /\ last'.caseId \notin DOMAIN cases)
         => /\ last'.ret = NotFound
            /\ last'.http = 404
            /\ cases' = cases
            /\ caseHistory' = caseHistory
            /\ processedPayments' = processedPayments]_vars

\* a payment for an unknown case was answered with not-found after the store
\* had already taken a payment
C5_Witness ==
    /\ LastIsPayment
    /\ last.caseId \notin DOMAIN cases
    /\ last.ret = NotFound
    /\ processedPayments # <<>>

\* the messages whose processing fails in the message callback
Fails(msg) == msg.body # "event" \/ msg.caseId \notin DOMAIN cases

\* C6 as stated: a delivered message whose processing fails for any reason is
\* nacked, with requeue=true when its death count is below 3 and requeue=false
\* when it is 3 or more.
C6_FailureNackedByDeathCount ==
    \A i \in 1..Len(out) :
        (out[i].kind = "deliver" /\ Fails(out[i].msg))
            => /\ i < Len(out)
               /\ out[i + 1].kind = "nack"
               /\ out[i + 1].mid = out[i].mid
               /\ out[i + 1].requeue = (getDeathCount(out[i].msg) < 3)

\* how often message mid was requeued
Requeues(mid) == Cardinality({i \in 1..Len(out) :
                                 out[i].kind = "nack" /\ out[i].mid = mid
                                 /\ out[i].requeue})

\* C7 as stated: a message whose processing fails on every delivery is
\* requeued to the live queue at most 3 times and is then dead-lettered.
C7_AtMostThreeRequeues == \A mid \in 1..MaxMsgs : Requeues(mid) <= 3

\* C8: when a successful payment makes the ledger hold more keys than its
\* bound, exactly the earliest-inserted batch is removed and every other key,
\* the new one included, stays; the ledger never exceeds the bound once
\* recordPayment has returned.  (The bound and the batch, 10000 and 5000 in the
\* source, are MaxLedger and EvictBatch here.)
C8_LedgerEviction ==
    /\ [](Len(processedPayments) <= MaxLedger)
    /\ [][processedPayments' # processedPayments =>
            LET old == processedPayments
                key == IdempotencyKey(last'.caseId, last'.paymentId)
            IN  /\ key \notin Range(old)
                /\ processedPayments' =
                     IF Len(old) + 1 > MaxLedger
                     THEN SubSeq(old, EvictBatch + 1, Len(old)) \o <<key>>
                     ELSE old \o <<key>>]_vars

\* the last payment overflowed the ledger and the oldest batch went
C8_Witness ==
    /\ LastIsPayment /\ last.applied
    /\ Len(evictedKeys) = EvictBatch
    /\ Len(processedPayments) = MaxLedger + 1 - EvictBatch
    /\ processedPayments[Len(processedPayments)] = LastKey
    /\ \A k \in Range(evictedKeys) : k \notin Range(processedPayments)

\* C9: when (caseId, paymentId) is resident in the ledger, recordPayment with
\* any amount returns the current case and leaves the case fields, the case
\* history and the ledger unchanged.
C9_ResidentKeyIsNoOp ==
    [][(last'.op = "recordPayment" /\ last'.http # 400
          /\ IdempotencyKey(last'.caseId, last'.paymentId)
                \in Range(processedPayments))
         => /\ cases' = cases
            /\ caseHistory' = caseHistory
            /\ processedPayments' = processedPayments
            /\ last'.ret = Found(last'.caseId, cases[last'.caseId])]_vars

\* a resident payment was sent again with another amount after a different
\* payment had been applied, and the case kept its balance
C9_Witness ==
    /\ LastIsPayment /\ last.duplicate
    /\ last.amount = 14000000
    /\ Len(processedPayments) = 2
    /\ processedPayments[1] = LastKey
    /\ cases[last.caseId].paidAmount = 100000
    /\ cases[last.caseId].status = ACTIVE

\* C10 as stated: the consumer acknowledges a successfully processed message
\* before any derived event for that message is published.
C10_AckBeforePublish ==
    \A j \in 1..Len(out) :
        out[j].kind = "publish"
            => \E i \in 1..(j - 1) : out[i].kind = "ack" /\ out[i].mid = out[j].mid

\* C14: recordPayment changes a case's status only from a non-CLOSED status to
\* CLOSED when the payment leaves currentDebt at 0, and from WRITTEN_OFF to
\* ACTIVE when amount > 0; in every other combination of status and payment
\* the status after the call is the status before it.
C14_PaymentStatusTransitions ==
    [][(last'.op = "recordPayment" /\ last'.http # 400)
         => \A c \in DOMAIN cases :
               cases'[c].status # cases[c].status
                 => /\ c = last'.caseId
                    /\ last'.ret = Found(c, cases'[c])
                    /\ \/ /\ cases[c].status # CLOSED
                          /\ cases'[c].status = CLOSED
                          /\ cases'[c].currentDebt = 0
                       \/ /\ cases[c].status = WRITTEN_OFF
                          /\ cases'[c].status = ACTIVE
                          /\ last'.amount > 0]_vars

\* a payment of the whole debt took a case in settlement to CLOSED
C14_Witness ==
    /\ LastIsPayment /\ last.applied
    /\ last.before.case.status = SETTLEMENT
    /\ last.ret.case.status = CLOSED
    /\ last.ret.case.currentDebt = 0
    /\ cases[last.caseId].status = CLOSED

\* C15 as stated: in every reachable state a case has closedAt set if and only
\* if its status is CLOSED.
C15_ClosedAtIffClosed ==
    \A c \in DOMAIN cases : (cases[c].closedAt # NoDate) <=> (cases[c].status = CLOSED)

\* C16 as stated: a case's paidAmount never decreases from one state to the
\* next.
C16_PaidAmountNeverDecreases ==
    [][\A c \in DOMAIN cases : cases'[c].paidAmount >= cases[c].paidAmount]_vars

\* C17: getCaseStatus changes nothing; for an existing case it returns the
\* case's status, canAcceptPayments = false with a reason exactly when the
\* status is LEGAL_ACTION, and canAcceptPayments = true with no reason for
\* ACTIVE, SETTLEMENT, CLOSED and WRITTEN_OFF; for an unknown case it returns
\* null.
C17_GetCaseStatus ==
    [][last'.op = "getCaseStatus"
         => /\ cases' = cases
            /\ caseHistory' = caseHistory
            /\ processedPayments' = processedPayments
            /\ IF last'.caseId \notin DOMAIN cases
               THEN last'.ret = NotFound
               ELSE /\ last'.ret.found
                    /\ last'.ret.caseId = last'.caseId
                    /\ last'.ret.status = cases[last'.caseId].status
                    /\ last'.ret.canAcceptPayments = (last'.ret.status # LEGAL_ACTION)
                    /\ (last'.ret.reason = "undefined") = (last'.ret.status # LEGAL_ACTION)]_vars

\* the status of a case that was closed by hand was queried: payments are
\* accepted and no reason is given
C17_Witness ==
    /\ last.op = "getCaseStatus"
    /\ last.caseId = "CASE-2024-005"
    /\ cases[last.caseId].status = CLOSED
    /\ last.ret.found
    /\ last.ret.status = CLOSED
    /\ last.ret.canAcceptPayments
    /\ last.ret.reason = "undefined"

NewOut == SubSeq(out', Len(out) + 1, Len(out'))

\* this step delivered a payment.completed event to the message callback
DeliversEvent == NewOut # <<>> /\ NewOut[1].kind = "deliver" /\ NewOut[1].msg.body = "event"

C12_DuplicateEventOnlyAcked ==
    [][(DeliversEvent /\ NewOut[1].msg.eventId \in Range(processedEventIds))
         => /\ NewOut = <<NewOut[1], [kind |-> "ack", mid |-> NewOut[1].mid]>>
            /\ last' = last
            /\ cases' = cases
            /\ caseHistory' = caseHistory
            /\ processedPayments' = processedPayments
            /\ appliedKeys' = appliedKeys
            /\ processedEventIds' = processedEventIds
            /\ handler' = Idle]_vars

\* a second message with the event id of a processed one was delivered and
\* acknowledged, and the case counts the payment once
C12_Witness ==
    \E i \in 1..(Len(out) - 1), j \in 1..Len(out) :
        /\ j < i
        /\ out[j].kind = "publish" /\ out[j].mid # out[i].mid
        /\ out[i].kind = "deliver" /\ out[i].msg.body = "event"
        /\ out[i].msg.amount = 50000
        /\ out[i].msg.caseId \in DOMAIN cases
        /\ out[i].msg.eventId \in Range(processedEventIds)
        /\ out[i + 1] = [kind |-> "ack", mid |-> out[i].mid]
        /\ Len(out) = i + 1
        /\ cases[out[i].msg.caseId].paidAmount = 50000

\* C13 as stated: whenever the consumer processes a payment event whose
\* application changes the case's status, it publishes case.status.changed
\* with previousStatus the status before the payment and newStatus the status
\* after it.
C13_StatusChangePublished ==
    [][(handler.op = "publishBalance" /\ handler' = Idle
          /\ handler.applied
          /\ handler.statusBefore # handler.payload.caseStatus)
         => \E i \in 1..Len(NewOut) :
               /\ NewOut[i].kind \in {"publish", "publishFailed"}
               /\ NewOut[i].routingKey = "case.status.changed"
               /\ NewOut[i].payload.previousStatus = handler.statusBefore
               /\ NewOut[i].payload.newStatus = handler.payload.caseStatus]_vars

\* C19 as stated: a payment event whose caseId is not in the case store is
\* nacked, requeued or dead-lettered by its death count; its eventId is not
\* added to the processed-event set, no case or ledger state changes and no
\* derived event is published.
C19_UnknownCaseNacked ==
    [][(DeliversEvent /\ NewOut[1].msg.caseId \notin DOMAIN cases)
         => /\ NewOut = <<NewOut[1],
                          [kind |-> "nack", mid |-> NewOut[1].mid,
                           requeue |-> (getDeathCount(NewOut[1].msg) < 3)]>>
            /\ processedEventIds' = processedEventIds
            /\ cases' = cases
            /\ caseHistory' = caseHistory
            /\ processedPayments' = processedPayments]_vars

\* C19 as amended: the same, for an event whose eventId is not resident in the
\* processed-event set; a resident eventId is acknowledged before the case is
\* looked up.
C19_UnknownCaseNackedUnlessSeen ==
    [][(DeliversEvent /\ NewOut[1].msg.caseId \notin DOMAIN cases)
         => /\ NewOut = <<NewOut[1],
                          IF NewOut[1].msg.eventId \in Range(processedEventIds)
                          THEN [kind |-> "ack", mid |-> NewOut[1].mid]
                          ELSE [kind |-> "nack", mid |-> NewOut[1].mid,
                                requeue |-> (getDeathCount(NewOut[1].msg) < 3)]>>
            /\ processedEventIds' = processedEventIds
            /\ cases' = cases
            /\ caseHistory' = caseHistory
            /\ processedPayments' = processedPayments
            /\ (NewOut[1].msg.eventId \notin Range(processedEventIds)
                  /\ getDeathCount(NewOut[1].msg) >= 3)
                 => deadLetters' # deadLetters /\ queue' = Tail(queue)
            /\ (NewOut[1].msg.eventId \notin Range(processedEventIds)
                  /\ getDeathCount(NewOut[1].msg) < 3)
                 => deadLetters' = deadLetters /\ queue' = queue]_vars

\* an event for an unknown case that had died three times was dead-lettered
\* and its event id was not recorded
C19_Witness ==
    \E i \in 1..(Len(out) - 1) :
        /\ out[i].kind = "deliver" /\ out[i].msg.body = "event"
        /\ out[i].msg.caseId \notin DOMAIN cases
        /\ getDeathCount(out[i].msg) = 3
        /\ out[i + 1] = [kind |-> "nack", mid |-> out[i].mid, requeue |-> FALSE]
        /\ out[i].msg.eventId \notin Range(processedEventIds)
        /\ \E d \in 1..Len(deadLetters) : deadLetters[d].mid = out[i].mid

\* C20: the consumer has at most one delivered message unsettled at any time:
\* every delivery but the last has been acked or nacked before the next one
\* is made.
C20_OneUnsettledDelivery ==
    /\ Cardinality(Unsettled(out)) <= 1
    /\ \A i \in 1..Len(out), j \in 1..Len(out) :
          (i < j /\ out[i].kind = "deliver" /\ out[j].kind = "deliver")
              => \E k \in (i + 1)..(j - 1) :
                    out[k].kind \in {"ack", "nack"} /\ out[k].mid = out[i].mid

\* a message waits in the queue while the callback of the one before it is
\* suspended with its delivery unsettled
C20_Witness ==
    /\ handler.op = "publishBalance"
    /\ queue # <<>>
    /\ Cardinality(Unsettled(out)) = 1
    /\ out[Len(out)].kind = "deliver"
    /\ out[Len(out)].mid < Head(queue).mid

\* this step is a recordPayment call that reached CaseService for an existing
\* case whose key is not in the ledger
AppliesPayment ==
    /\ last'.op = "recordPayment" /\ last'.http # 400
    /\ last'.caseId \in DOMAIN cases
    /\ IdempotencyKey(last'.caseId, last'.paymentId) \notin Range(processedPayments)

\* C21: immediately after a non-duplicate recordPayment on an existing case,
\* paidAmount is its previous value plus the amount, currentDebt is
\* max(0, originalDebt + interestAccrued - paidAmount), and currentDebt is not
\* negative.
C21_BalanceAfterPayment ==
    [][AppliesPayment
         => LET before == cases[last'.caseId]
                after == cases'[last'.caseId]
            IN  /\ after.paidAmount = before.paidAmount + last'.amount
                /\ after.originalDebt = before.originalDebt
                /\ after.interestAccrued = before.interestAccrued
                /\ after.currentDebt =
                     Max(0, after.originalDebt + after.interestAccrued - after.paidAmount)
                /\ after.currentDebt >= 0
                /\ last'.ret = Found(last'.caseId, after)]_vars

\* an overpayment of a new case was clamped to a balance of 0
C21_Witness ==
    /\ LastIsPayment /\ last.applied
    /\ last.caseId \in NewCaseIds
    /\ cases[last.caseId].paidAmount = last.amount
    /\ cases[last.caseId].paidAmount
          > cases[last.caseId].originalDebt + cases[last.caseId].interestAccrued
    /\ cases[last.caseId].currentDebt = 0

\* this step applies a positive payment that brings a WRITTEN_OFF case to a
\* balance of 0
PaysOffWrittenOff ==
    /\ AppliesPayment
    /\ last'.amount > 0
    /\ cases[last'.caseId].status = WRITTEN_OFF
    /\ cases'[last'.caseId].currentDebt = 0

C23_ClosedCaseKeepsClosedAt ==
    [][(AppliesPayment /\ cases[last'.caseId].status = CLOSED)
         => /\ cases'[last'.caseId].status = CLOSED
            /\ cases'[last'.caseId].closedAt = cases[last'.caseId].closedAt
            /\ cases'[last'.caseId].paidAmount
                 = cases[last'.caseId].paidAmount + last'.amount
            /\ IdempotencyKey(last'.caseId, last'.paymentId)
                  \in Range(processedPayments')]_vars

\* a case closed by hand was then paid off: it kept the closedAt of the
\* closure, which is older than the payment
C23_Witness ==
    /\ LastIsPayment /\ last.applied
    /\ last.before.case.status = CLOSED
    /\ last.before.case.currentDebt > 0
    /\ cases[last.caseId].currentDebt = 0
    /\ cases[last.caseId].status = CLOSED
    /\ cases[last.caseId].closedAt = last.before.case.closedAt
    /\ cases[last.caseId].closedAt # NoDate
    /\ cases[last.caseId].closedAt < cases[last.caseId].lastPaymentAt

\* C24: for every payment event the consumer applies, the case.balance.updated
\* event has previousBalance equal to the case's currentDebt before the
\* payment, newBalance equal to its currentDebt after, caseStatus equal to its
\* status after, and paymentId and paymentAmount equal to the event's payload
\* id and amount.
C24_BalanceUpdatedPayload ==
    [][/\ (handler.op # "publishBalance" /\ handler'.op = "publishBalance")
            => LET msg == handler'.msg
               IN  /\ msg = Head(queue)
                   /\ handler'.payload =
                        [caseId |-> msg.caseId,
                         previousBalance |-> cases[msg.caseId].currentDebt,
                         newBalance |-> cases'[msg.caseId].currentDebt,
                         paymentId |-> msg.paymentId,
                         paymentAmount |-> msg.amount,
                         caseStatus |-> cases'[msg.caseId].status]
       /\ (handler.op = "publishBalance" /\ NewOut # <<>>)
            => /\ NewOut[1].kind \in {"publish", "publishFailed"}
               /\ NewOut[1].routingKey = "case.balance.updated"
               /\ NewOut[1].mid = handler.msg.mid
               /\ NewOut[1].payload = handler.payload]_vars

\* the event of an instalment on the written-off case went out with the
\* seeded balance as previousBalance and the recomputed one as newBalance
C24_Witness ==
    \E i \in 1..Len(out) :
        /\ out[i].kind = "publish"
        /\ out[i].routingKey = "case.balance.updated"
        /\ out[i].payload.paymentAmount = 50000
        /\ out[i].payload.previousBalance = SampleCases[out[i].payload.caseId].currentDebt
        /\ out[i].payload.newBalance = 13950000
        /\ out[i].payload.caseStatus = ACTIVE
        /\ cases[out[i].payload.caseId].currentDebt = 13950000

\* the acks and nacks of delivery i: those for its message before the next
\* delivery
SettlesOf(i) ==
    {k \in (i + 1)..Len(out) :
        /\ out[k].kind \in {"ack", "nack"}
        /\ out[k].mid = out[i].mid
        /\ \A d \in (i + 1)..(k - 1) : out[d].kind # "deliver"}

\* C28 as stated: every message delivered to the consumer is settled exactly
\* once; once the callback has ended, exactly one ack or nack was issued for
\* the delivery.
C28_SettledExactlyOnce ==
    handler.op # "publishBalance"
        => \A i \in 1..Len(out) :
              out[i].kind = "deliver" => Cardinality(SettlesOf(i)) = 1

\* C29 as stated: when recordPayment is a no-op because the (caseId,
\* paymentId) of a message with a new eventId is already in the ledger, the
\* consumer publishes no case.balance.updated event.
C29_NoBalanceEventForNoOp ==
    [][(handler.op = "publishBalance" /\ ~handler.applied)
         => \A i \in 1..Len(NewOut) :
               ~(NewOut[i].kind = "publish"
                   /\ NewOut[i].routingKey = "case.balance.updated")]_vars

\* the message of the last delivery before position j of the channel log
DeliveredBefore(j) ==
    LET i == CHOOSE i \in 1..(j - 1) :
                 /\ out[i].kind = "deliver"
                 /\ \A d \in (i + 1)..(j - 1) : out[d].kind # "deliver"
    IN  out[i].msg

\* the payment that message msg names has been applied to its case
Reflected(msg) ==
    /\ msg.body = "event"
    /\ Count(appliedKeys, IdempotencyKey(msg.caseId, msg.paymentId)) >= 1

\* an eventId enters the processed-event set only at the end of a callback
\* for which recordPayment returned a case
MarksOnlyProcessed ==
    processedEventIds' # processedEventIds
        => /\ handler.op = "publishBalance"
           /\ handler.msg.caseId \in DOMAIN cases
           /\ Reflected(handler.msg)
           /\ handler.msg.eventId \notin Range(processedEventIds)
           /\ handler.msg.eventId \in Range(processedEventIds')
           /\ Range(processedEventIds') \subseteq
                 Range(processedEventIds) \cup {handler.msg.eventId}

\* C30 as stated: whenever the consumer acks a message, the payment it names
\* has been applied to the case at some earlier point, and an eventId is added
\* to the processed-event set only after recordPayment returned a case for it.
C30_AckOnlyIfReflected ==
    /\ [](\A j \in 1..Len(out) :
             out[j].kind = "ack" => Reflected(DeliveredBefore(j)))
    /\ [][MarksOnlyProcessed]_vars

\* C30 as amended: the same for a message the consumer processed; a message
\* whose eventId is resident is acknowledged straight after delivery, without
\* its payload being looked at.
C30_ProcessedAckOnlyIfReflected ==
    /\ [](\A j \in 1..Len(out) :
             (out[j].kind = "ack" /\ out[j - 1].kind # "deliver")
                 => Reflected(DeliveredBefore(j)))
    /\ [][(DeliversEvent /\ Len(NewOut) = 2 /\ NewOut[2].kind = "ack")
            => NewOut[1].msg.eventId \in Range(processedEventIds)]_vars
    /\ [][MarksOnlyProcessed]_vars

\* a message was acknowledged whose payment had been applied over the REST
\* path before: recordPayment found the key and changed nothing
C30_Witness ==
    \E j \in 2..Len(out) :
        /\ out[j].kind = "ack"
        /\ out[j - 1].kind = "publish"
        /\ out[j - 1].payload.previousBalance = out[j - 1].payload.newBalance
        /\ Reflected(DeliveredBefore(j))
        /\ DeliveredBefore(j).eventId \in Range(processedEventIds)
        /\ Cardinality({i \in 1..Len(out) : out[i].kind = "deliver"}) = 1
        /\ cases[DeliveredBefore(j).caseId].paidAmount = 50000

\* C25: when marking an eventId makes the processed-event set exceed its
\* bound, exactly the earliest-inserted batch is removed, so the set never
\* holds more than the bound once a message has been handled, and an eventId
\* still in the set is always detected as a duplicate.  (The bound and the
\* batch, 10000 and 5000 in the source, are MaxEventIds and EventEvictBatch
\* here.)
C25_EventIdEviction ==
    /\ [](Len(processedEventIds) <= MaxEventIds)
    /\ [][IF handler.op = "publishBalance" /\ handler'.op = "none"
          THEN LET old == processedEventIds
                   eventId == handler.msg.eventId
               IN  /\ eventId \notin Range(old)
                   /\ processedEventIds' =
                        IF Len(old) + 1 > MaxEventIds
                        THEN SubSeq(old, EventEvictBatch + 1, Len(old)) \o <<eventId>>
                        ELSE old \o <<eventId>>
          ELSE processedEventIds' = processedEventIds]_vars
    /\ [][(DeliversEvent /\ NewOut[1].msg.eventId \in Range(processedEventIds))
            => /\ NewOut = <<NewOut[1], [kind |-> "ack", mid |-> NewOut[1].mid]>>
               /\ last' = last
               /\ processedEventIds' = processedEventIds]_vars

\* the event id of the last message overflowed the set: the oldest batch,
\* with the event id of the first message in it, is gone and the rest stayed
C25_Witness ==
    /\ handler.op = "none"
    /\ out # <<>>
    /\ Cardinality({i \in 1..Len(out) : out[i].kind = "publish"}) = MaxEventIds + 1
    /\ Len(processedEventIds) = MaxEventIds + 1 - EventEvictBatch
    /\ out[1].msg.eventId \notin Range(processedEventIds)
    /\ DeliveredBefore(Len(out)).eventId = processedEventIds[Len(processedEventIds)]

\* C26 as stated: after stop() has completed, the subscription is cancelled
\* and no further message is delivered to the consumer.
C26_NoDeliveryAfterStop ==
    /\ rabbitmq.stopped => rabbitmq.consumerTags = {}
    /\ \A i \in 1..Len(out), j \in 1..Len(out) :
          (i < j /\ out[i].kind = "cancel") => out[j].kind # "deliver"

\* C27 as stated: after disconnect() has closed the channel and the
\* connection, the connection stays closed: no reconnect attempt is scheduled
\* and connect() is not invoked again.
C27_StaysClosedAfterDisconnect ==
    rabbitmq.disconnected
        => /\ rabbitmq.timers = 0
           /\ ~rabbitmq.connectInvoked
           /\ ~rabbitmq.connection

\* C31 as stated: a non-duplicate recordPayment with amount >= 0 on an
\* existing case leaves the case's currentDebt less than or equal to what it
\* was before the call.
C31_PaymentNeverIncreasesDebt ==
    [][(AppliesPayment /\ last'.amount >= 0)
         => cases'[last'.caseId].currentDebt <= cases[last'.caseId].currentDebt]_vars

\* the status a non-duplicate payment of `amount` leaves a case in, given the
\* status before the call and the currentDebt after it
StatusAfterPayment(statusBefore, debtAfter, amount) ==
    IF debtAfter <= 0 /\ statusBefore # CLOSED THEN CLOSED
    ELSE IF statusBefore = WRITTEN_OFF /\ amount > 0 THEN ACTIVE
    ELSE statusBefore

\* C32: the ledger check, the case mutation and the ledger insert of one
\* recordPayment call are one step.  Whatever the order in which payment
\* requests and consumer deliveries for one (caseId, paymentId) interleave,
\* the key is applied once for each time it was in the ledger (once while
\* it is never evicted); a call for a key that is not in the ledger leaves,
\* in the one step, paidAmount, currentDebt and status all updated and the key
\* in the ledger; and no other step changes any of the three, so no state a
\* reader can see has paidAmount updated and currentDebt or status not.
C32_RecordPaymentAtomic ==
    /\ [](\A i \in 1..Len(appliedKeys) :
            Count(appliedKeys, appliedKeys[i])
              <= 1 + Count(evictedKeys, appliedKeys[i]))
    /\ [][/\ appliedKeys' = IF AppliesPayment
                             THEN Append(appliedKeys, LastKey')
                             ELSE appliedKeys
          /\ AppliesPayment => LastKey' \in Range(processedPayments')
          /\ \A c \in DOMAIN cases :
               LET before == cases[c]
                   after == cases'[c]
               IN  IF AppliesPayment /\ last'.caseId = c
                   THEN /\ after.paidAmount = before.paidAmount + last'.amount
                        /\ after.currentDebt =
                             Max(0, before.originalDebt + before.interestAccrued
                                      - after.paidAmount)
                        /\ after.status =
                             StatusAfterPayment(before.status, after.currentDebt,
                                                last'.amount)
                   ELSE /\ after.paidAmount = before.paidAmount
                        /\ after.currentDebt = before.currentDebt
                        /\ after.status = before.status]_vars

\* a payment request arrived while the consumer's callback for the same
\* (caseId, paymentId) was suspended after its recordPayment call: the
\* consumer applied the amount, the request was the duplicate, and the case
\* holds the amount once
C32_Witness ==
    /\ handler.op = "publishBalance"
    /\ handler.applied
    /\ handler.msg.amount = 50000
    /\ last.op = "recordPayment" /\ last.via = "rest"
    /\ last.duplicate
    /\ last.caseId = handler.msg.caseId
    /\ last.paymentId = handler.msg.paymentId
    /\ Count(appliedKeys, LastKey) = 1
    /\ cases[last.caseId].paidAmount = SampleCases[last.caseId].paidAmount + 50000

=============================================================================
